---------------------------- MODULE Spec2Model ----------------------------
(***************************************************************************)
(* The blog application of blogicum/blog: the request handlers of          *)
(* views.py, the query helpers of mixins.py and the forms of forms.py,     *)
(* over the rows they read and write (User, Category, Post, Comment).      *)
(*                                                                         *)
(* Spec      the seven protected handlers, one request at a time.          *)
(* ViewSpec  the read handlers (detail and the three listings) over posts  *)
(*           that change through the post handlers and the clock.          *)
(* RaceSpec  two requests in flight, each handler split at its queries.    *)
(*                                                                         *)
(* DeleteView is the one of Django 3.2: post() calls delete(), which       *)
(* CommentDeleteView overrides.                                            *)
(***************************************************************************)
EXTENDS Integers, Sequences, FiniteSets, TLC

VARIABLES
    users,          \* auth_user: user id -> username
    categories,     \* blog_category: slug -> is_published
    posts,          \* blog_post: pk -> row
    comments,       \* blog_comment: pk -> row
    nextPostId,     \* the next pk the post table hands out
    nextCommentId,  \* the next pk the comment table hands out
    now,            \* timezone.now()
    response,       \* the request last answered and its answer
    postCreator,    \* history: who made the create request of each post
    commentCreator, \* history: who made the create request of each comment
    pc,             \* RaceSpec: where each request in flight stands
    rq,             \* RaceSpec: the request each worker handles
    lc,             \* RaceSpec: what each view instance holds in memory
    overlap         \* RaceSpec history: both read the counter before either wrote

hist == <<postCreator, commentCreator>>
race == <<pc, rq, lc, overlap>>
vars == <<users, categories, posts, comments, nextPostId, nextCommentId, now,
          response, postCreator, commentCreator, pc, rq, lc, overlap>>

---------------------------------------------------------------------------
(* Bounds and value sets *)

MaxPosts == 1
MaxComments == 1
MaxTime == 1
MaxPage == 2

POSTS_PER_PAGE == 10

Users == {"u1", "u2"}
AnonymousUser == "anon"
Requesters == Users \cup {AnonymousUser}
Names == {"n1", "n2", "n3"}
Slugs == {"c1", "c2"}
PostIds == 1..MaxPosts
CommentIds == 1..MaxComments
\* The post_id of a comment URL, which no handler compares with the comment's
\* own post: any id of the table, or 0, which names no row
UrlPostIds == 0..MaxPosts
Pages == 1..MaxPage

\* request.user.username; AnonymousUser.username is the empty string
Username(u) == IF u \in Users THEN users[u] ELSE ""

\* request.user.is_authenticated
IsAuthenticated(u) == u \in Users

EmptyTable == [i \in {} |-> i]
Without(table, pk) == [i \in DOMAIN table \ {pk} |-> table[i]]

---------------------------------------------------------------------------
(* Forms *)

\* What a PostForm submission carries: every Post field but author and
\* comment_count.
PostFormData ==
    [title : {"", "t"}, is_published : BOOLEAN, pub_date : 0..MaxTime,
     category : Slugs \cup {"none"}]

\* The submissions Spec draws from: a visible post, a hidden one, and the two
\* ways a submission is refused.
PostFormSample ==
    { [title |-> "t", is_published |-> TRUE,  pub_date |-> 0,       category |-> "c1"],
      [title |-> "t", is_published |-> FALSE, pub_date |-> MaxTime, category |-> "c2"],
      [title |-> "",  is_published |-> TRUE,  pub_date |-> 0,       category |-> "c1"],
      [title |-> "t", is_published |-> TRUE,  pub_date |-> 0,       category |-> "none"] }

CommentFormData == [text : {"", "x", "y"}]

ProfileFormData == [username : Names \cup {""}]

\* The profile submissions Spec draws from: the two names in use and none
ProfileFormSample == [username : {"n1", "n2", ""}]


\* PostForm.is_valid(): the title is required, the category is a row of the
\* category table.
PostFormIsValid(data) ==
    /\ data.title # ""
    /\ data.category \in DOMAIN categories

\* CommentForm.is_valid(): fields = ('text',), and the text is required.
CommentFormIsValid(data) == data.text # ""

\* The form of ProfileUpdateView: the username is required and unique.
ProfileFormIsValid(user, data) ==
    /\ data.username # ""
    /\ \A o \in Users \ {user} : users[o] # data.username

---------------------------------------------------------------------------
(* Responses *)

NoResponse ==
    [op |-> "none", user |-> AnonymousUser, pk |-> 0, cid |-> 0, name |-> "",
     at |-> 0, status |-> "none", view |-> "", to_pk |-> 0, to_name |-> "",
     object_list |-> <<>>, page |-> <<>>]

Request(op, user, pk, cid, name) ==
    [NoResponse EXCEPT !.op = op, !.user = user, !.pk = pk, !.cid = cid,
                       !.name = name, !.at = now]

\* render(): the page, or the form again
Render(r) == [r EXCEPT !.status = "ok"]
FormErrors(r) == [r EXCEPT !.status = "form_errors"]
\* Http404
NotFound(r) == [r EXCEPT !.status = "not_found"]
\* redirect('blog:post_detail', pk=pk)
RedirectPostDetail(r, pk) ==
    [r EXCEPT !.status = "redirect", !.view = "post_detail", !.to_pk = pk]
\* redirect to reverse('blog:profile', username)
RedirectProfile(r, username) ==
    [r EXCEPT !.status = "redirect", !.view = "profile", !.to_name = username]
\* LoginRequiredMixin.handle_no_permission
RedirectLogin(r) == [r EXCEPT !.status = "redirect", !.view = "login"]

---------------------------------------------------------------------------
(* Rows *)

\* The row a valid PostForm of PostCreateView saves: the form's fields, the
\* author AddAuthorMixin.form_valid sets, and the counter's default.
NewPost(user, data) ==
    [author |-> user, title |-> data.title, is_published |-> data.is_published,
     pub_date |-> data.pub_date, category |-> data.category,
     comment_count |-> 0]

\* form.save() of PostUpdateView: the form's fields laid over the instance
\* the view loaded, the author AddAuthorMixin.form_valid sets; Model.save()
\* then writes every column of that instance, comment_count with them.
SavedPost(instance, user, data) ==
    [instance EXCEPT !.author = user, !.title = data.title,
                     !.is_published = data.is_published,
                     !.pub_date = data.pub_date, !.category = data.category]

\* CommentCreateView.form_valid: author and to_post set on the form's instance
NewComment(user, post_id, data) ==
    [author |-> user, to_post |-> post_id, text |-> data.text]

\* CommentUpdateView: the form's text, the author AddAuthorMixin sets
SavedComment(instance, user, data) ==
    [instance EXCEPT !.author = user, !.text = data.text]

\* to_post.comment_count += 1 on the Post the view loaded in dispatch
CountAfterCreate(loaded) == loaded + 1

CountAfterDelete_NoDecrement(loaded) == loaded

\* to_post.comment_count -= 1 on the Post loaded through comment.to_post
CountAfterDelete(loaded) == loaded - 1

\* to_post.save(update_fields=['comment_count'])
SaveCount(table, pk, count) ==
    IF pk \in DOMAIN table
    THEN [table EXCEPT ![pk].comment_count = count]
    ELSE table

\* Deleting a Post deletes the Comments that reference it.
CascadeComments(table, pk) ==
    [c \in {i \in DOMAIN table : table[i].to_post # pk} |-> table[c]]

IsAuthor_Anyone(instance, user) == TRUE

\* instance.author != self.request.user, negated
IsAuthor(instance, user) == instance.author = user

---------------------------------------------------------------------------
(* The protected handlers, each the whole POST request of its URL.  A GET   *)
(* of the same URL passes the same dispatch checks and then renders the    *)
(* form or the confirmation page without writing a row.                    *)

\* PostCreateView
PostCreate(user, data) ==
    LET r == Request("post_create", user, 0, 0, "") IN
    /\ IF ~IsAuthenticated(user)
       THEN /\ response' = RedirectLogin(r)
            /\ UNCHANGED <<posts, nextPostId, postCreator>>
       ELSE IF ~PostFormIsValid(data)
       THEN /\ response' = FormErrors(r)
            /\ UNCHANGED <<posts, nextPostId, postCreator>>
       ELSE /\ nextPostId <= MaxPosts
            /\ posts' = posts @@ (nextPostId :> NewPost(user, data))
            /\ nextPostId' = nextPostId + 1
            /\ postCreator' = postCreator @@ (nextPostId :> user)
            /\ response' = RedirectProfile(r, Username(user))
    /\ UNCHANGED <<users, categories, comments, nextCommentId, commentCreator,
                   now, race>>

\* PostUpdateView: AuthorCheckMixin.dispatch runs before LoginRequiredMixin
PostUpdate(user, pk, data) ==
    LET r == Request("post_update", user, pk, 0, "") IN
    /\ IF pk \notin DOMAIN posts
       THEN /\ response' = NotFound(r)
            /\ UNCHANGED posts
       ELSE IF ~IsAuthor(posts[pk], user)
       THEN /\ response' = RedirectPostDetail(r, pk)
            /\ UNCHANGED posts
       ELSE IF ~IsAuthenticated(user)
       THEN /\ response' = RedirectLogin(r)
            /\ UNCHANGED posts
       ELSE IF ~PostFormIsValid(data)
       THEN /\ response' = FormErrors(r)
            /\ UNCHANGED posts
       ELSE /\ posts' = [posts EXCEPT ![pk] = SavedPost(posts[pk], user, data)]
            /\ response' = RedirectPostDetail(r, pk)
    /\ UNCHANGED <<users, categories, comments, nextPostId, nextCommentId,
                   hist, now, race>>

\* PostDeleteView: AuthorCheckMixin.dispatch runs before LoginRequiredMixin
PostDelete(user, pk) ==
    LET r == Request("post_delete", user, pk, 0, "") IN
    /\ IF pk \notin DOMAIN posts
       THEN /\ response' = NotFound(r)
            /\ UNCHANGED <<posts, comments, hist>>
       ELSE IF ~IsAuthor(posts[pk], user)
       THEN /\ response' = RedirectPostDetail(r, pk)
            /\ UNCHANGED <<posts, comments, hist>>
       ELSE IF ~IsAuthenticated(user)
       THEN /\ response' = RedirectLogin(r)
            /\ UNCHANGED <<posts, comments, hist>>
       ELSE /\ posts' = Without(posts, pk)
            /\ comments' = CascadeComments(comments, pk)
            /\ postCreator' = Without(postCreator, pk)
            /\ commentCreator' =
                   [c \in DOMAIN CascadeComments(comments, pk) |-> commentCreator[c]]
            /\ response' = RedirectProfile(r, Username(user))
    /\ UNCHANGED <<users, categories, nextPostId, nextCommentId, now, race>>

\* CommentCreateView with the counter saved before the form is validated
CommentCreate_CountsUnvalidated(user, post_id, data) ==
    LET r == Request("comment_create", user, post_id, 0, "") IN
    /\ IF post_id \notin DOMAIN posts
       THEN /\ response' = NotFound(r)
            /\ UNCHANGED <<posts, comments, nextCommentId, commentCreator>>
       ELSE IF ~IsAuthenticated(user)
       THEN /\ response' = RedirectLogin(r)
            /\ UNCHANGED <<posts, comments, nextCommentId, commentCreator>>
       ELSE IF ~CommentFormIsValid(data)
       THEN /\ response' = FormErrors(r)
            /\ posts' = SaveCount(posts, post_id,
                                  CountAfterCreate(posts[post_id].comment_count))
            /\ UNCHANGED <<comments, nextCommentId, commentCreator>>
       ELSE /\ nextCommentId <= MaxComments
            /\ comments' = comments @@
                   (nextCommentId :> NewComment(user, post_id, data))
            /\ nextCommentId' = nextCommentId + 1
            /\ commentCreator' = commentCreator @@ (nextCommentId :> user)
            /\ posts' = SaveCount(posts, post_id,
                                  CountAfterCreate(posts[post_id].comment_count))
            /\ response' = RedirectPostDetail(r, post_id)
    /\ UNCHANGED <<users, categories, nextPostId, postCreator, now, race>>

\* CommentCreateView: its own dispatch loads the Post, then LoginRequiredMixin
CommentCreate(user, post_id, data) ==
    LET r == Request("comment_create", user, post_id, 0, "") IN
    /\ IF post_id \notin DOMAIN posts
       THEN /\ response' = NotFound(r)
            /\ UNCHANGED <<posts, comments, nextCommentId, commentCreator>>
       ELSE IF ~IsAuthenticated(user)
       THEN /\ response' = RedirectLogin(r)
            /\ UNCHANGED <<posts, comments, nextCommentId, commentCreator>>
       ELSE IF ~CommentFormIsValid(data)
       THEN /\ response' = FormErrors(r)
            /\ UNCHANGED <<posts, comments, nextCommentId, commentCreator>>
       ELSE /\ nextCommentId <= MaxComments
            /\ comments' = comments @@
                   (nextCommentId :> NewComment(user, post_id, data))
            /\ nextCommentId' = nextCommentId + 1
            /\ commentCreator' = commentCreator @@ (nextCommentId :> user)
            /\ posts' = SaveCount(posts, post_id,
                                  CountAfterCreate(posts[post_id].comment_count))
            /\ response' = RedirectPostDetail(r, post_id)
    /\ UNCHANGED <<users, categories, nextPostId, postCreator, now, race>>

\* CommentUpdateView: CommentChangeMixin.dispatch runs before LoginRequiredMixin
CommentUpdate(user, post_id, comment_id, data) ==
    LET r == Request("comment_update", user, 0, comment_id, "") IN
    /\ IF comment_id \notin DOMAIN comments
       THEN /\ response' = NotFound(r)
            /\ UNCHANGED comments
       ELSE IF ~IsAuthor(comments[comment_id], user)
       THEN /\ response' = RedirectPostDetail(r, post_id)
            /\ UNCHANGED comments
       ELSE IF ~IsAuthenticated(user)
       THEN /\ response' = RedirectLogin(r)
            /\ UNCHANGED comments
       ELSE IF ~CommentFormIsValid(data)
       THEN /\ response' = FormErrors(r)
            /\ UNCHANGED comments
       ELSE /\ comments' = [comments EXCEPT ![comment_id] =
                               SavedComment(comments[comment_id], user, data)]
            /\ response' = RedirectPostDetail(r, comments[comment_id].to_post)
    /\ UNCHANGED <<users, categories, posts, nextPostId, nextCommentId, hist,
                   now, race>>

\* CommentDeleteView: CommentChangeMixin.dispatch, then delete()
CommentDelete(user, post_id, comment_id) ==
    LET r == Request("comment_delete", user, 0, comment_id, "") IN
    /\ IF comment_id \notin DOMAIN comments
       THEN /\ response' = NotFound(r)
            /\ UNCHANGED <<posts, comments, commentCreator>>
       ELSE IF ~IsAuthor(comments[comment_id], user)
       THEN /\ response' = RedirectPostDetail(r, post_id)
            /\ UNCHANGED <<posts, comments, commentCreator>>
       ELSE IF ~IsAuthenticated(user)
       THEN /\ response' = RedirectLogin(r)
            /\ UNCHANGED <<posts, comments, commentCreator>>
       ELSE LET to_post == comments[comment_id].to_post IN
            /\ posts' = SaveCount(posts, to_post,
                                  CountAfterDelete(posts[to_post].comment_count))
            /\ comments' = Without(comments, comment_id)
            /\ commentCreator' = Without(commentCreator, comment_id)
            /\ response' = RedirectPostDetail(r, to_post)
    /\ UNCHANGED <<users, categories, nextPostId, nextCommentId, postCreator,
                   now, race>>

\* ProfileUpdateView: get_object() is request.user
ProfileEdit(user, data) ==
    LET r == Request("profile_edit", user, 0, 0, "") IN
    /\ IF ~IsAuthenticated(user)
       THEN /\ response' = RedirectLogin(r)
            /\ UNCHANGED users
       ELSE IF ~ProfileFormIsValid(user, data)
       THEN /\ response' = FormErrors(r)
            /\ UNCHANGED users
       ELSE /\ users' = [users EXCEPT ![user] = data.username]
            /\ response' = RedirectProfile(r, data.username)
    /\ UNCHANGED <<categories, posts, comments, nextPostId, nextCommentId,
                   hist, now, race>>

---------------------------------------------------------------------------
(* Spec: the protected handlers, one request at a time *)

Idle ==
    /\ pc = [w \in {} |-> "idle"]
    /\ rq = [w \in {} |-> NoResponse]
    /\ lc = [w \in {} |-> 0]
    /\ overlap = FALSE

Init ==
    /\ users = [u \in Users |-> IF u = "u1" THEN "n1" ELSE "n2"]
    /\ categories = [s \in Slugs |-> s = "c1"]
    /\ posts = EmptyTable
    /\ comments = EmptyTable
    /\ nextPostId = 1
    /\ nextCommentId = 1
    /\ now = 0
    /\ response = NoResponse
    /\ postCreator = EmptyTable
    /\ commentCreator = EmptyTable
    /\ Idle

Next ==
    \E user \in Requesters :
        \/ \E data \in PostFormSample : PostCreate(user, data)
        \/ \E pk \in PostIds, data \in PostFormSample : PostUpdate(user, pk, data)
        \/ \E pk \in PostIds : PostDelete(user, pk)
        \/ \E post_id \in PostIds, data \in CommentFormData :
               CommentCreate(user, post_id, data)
        \/ \E post_id \in UrlPostIds, comment_id \in CommentIds,
              data \in CommentFormData :
               CommentUpdate(user, post_id, comment_id, data)
        \/ \E post_id \in UrlPostIds, comment_id \in CommentIds :
               CommentDelete(user, post_id, comment_id)
        \/ \E data \in ProfileFormSample : ProfileEdit(user, data)

Spec == Init /\ [][Next]_vars

---------------------------------------------------------------------------
(* The query layer and the read handlers *)

\* GetPostsMixin.get_all_posts
get_all_posts == DOMAIN posts

\* GetPostsMixin.get_published_posts
get_published_posts ==
    {p \in get_all_posts : posts[p].pub_date <= now /\ posts[p].is_published}

\* PostListView.get_queryset
PostListQueryset ==
    {p \in DOMAIN posts :
        /\ posts[p].pub_date <= now
        /\ posts[p].is_published
        /\ categories[posts[p].category]}

\* CategoryPostsView.get_queryset
CategoryQueryset(category_slug) ==
    {p \in DOMAIN posts :
        /\ posts[p].pub_date <= now
        /\ posts[p].is_published
        /\ posts[p].category = category_slug}

ProfileQueryset_Unfiltered(viewer, username) ==
    {p \in DOMAIN posts : Username(posts[p].author) = username}

\* profile_page: the user's posts, filtered unless the viewer has that username
ProfileQueryset(viewer, username) ==
    LET of_user == {p \in DOMAIN posts : Username(posts[p].author) = username} IN
    IF Username(viewer) # username
    THEN {p \in of_user :
            /\ posts[p].pub_date <= now
            /\ posts[p].is_published
            /\ categories[posts[p].category]}
    ELSE of_user

\* The order a queryset of posts comes in: newest first, then by pk.
RECURSIVE Ordered(_)
Ordered(S) ==
    IF S = {} THEN <<>>
    ELSE LET first == CHOOSE p \in S : \A q \in S :
                          \/ posts[p].pub_date > posts[q].pub_date
                          \/ posts[p].pub_date = posts[q].pub_date /\ p <= q
         IN <<first>> \o Ordered(S \ {first})

\* The order the comments of a post come in: by creation.
RECURSIVE OrderedComments(_)
OrderedComments(S) ==
    IF S = {} THEN <<>>
    ELSE LET first == CHOOSE c \in S : \A d \in S : c <= d
         IN <<first>> \o OrderedComments(S \ {first})

\* Paginator(object_list, POSTS_PER_PAGE).num_pages: an empty list has one page
NumPages(object_list) ==
    IF Len(object_list) = 0 THEN 1
    ELSE (Len(object_list) + POSTS_PER_PAGE - 1) \div POSTS_PER_PAGE

\* Paginator.page(number).object_list
PageItems(object_list, number) ==
    LET last == IF number * POSTS_PER_PAGE < Len(object_list)
                THEN number * POSTS_PER_PAGE ELSE Len(object_list)
    IN SubSeq(object_list, (number - 1) * POSTS_PER_PAGE + 1, last)

\* A ListView with paginate_by: a page past the last one is not found.
ListPage(r, object_list, number) ==
    IF number > NumPages(object_list)
    THEN NotFound(r)
    ELSE [Render(r) EXCEPT !.object_list = object_list,
                           !.page = PageItems(object_list, number)]

\* paginator.get_page(page_number): a page past the last one is the last one.
GetPage(r, object_list, number) ==
    LET n == IF number > NumPages(object_list)
             THEN NumPages(object_list) ELSE number
    IN [Render(r) EXCEPT !.object_list = object_list,
                         !.page = PageItems(object_list, n)]

Reads == UNCHANGED <<users, categories, posts, comments, nextPostId,
                     nextCommentId, hist, now, race>>

\* PostDetailView
PostDetail(viewer, pk) ==
    LET r == Request("post_detail", viewer, pk, 0, "") IN
    /\ response' =
         IF pk \notin DOMAIN posts
         THEN NotFound(r)
         ELSE IF ~IsAuthor(posts[pk], viewer) /\ ~posts[pk].is_published
         THEN NotFound(r)
         ELSE [Render(r) EXCEPT !.object_list =
                   OrderedComments({c \in DOMAIN comments :
                                       comments[c].to_post = pk})]
    /\ Reads

\* PostListView
PostList(number) ==
    LET r == Request("post_list", AnonymousUser, 0, 0, "") IN
    /\ response' = ListPage(r, Ordered(PostListQueryset), number)
    /\ Reads

\* CategoryPostsView: get_context_data looks the published category up
CategoryPosts(category_slug, number) ==
    LET r == Request("category_posts", AnonymousUser, 0, 0, category_slug)
        listed == ListPage(r, Ordered(CategoryQueryset(category_slug)), number)
    IN
    /\ response' =
         IF listed.status = "not_found"
         THEN listed
         ELSE IF \/ category_slug \notin DOMAIN categories
                 \/ ~categories[category_slug]
         THEN NotFound(r)
         ELSE listed
    /\ Reads

\* profile_page
ProfilePage(viewer, username, number) ==
    LET r == Request("profile_page", viewer, 0, 0, username) IN
    /\ response' =
         IF \A u \in Users : users[u] # username
         THEN NotFound(r)
         ELSE GetPage(r, Ordered(ProfileQueryset(viewer, username)), number)
    /\ Reads

\* timezone.now() moves on between requests
Tick ==
    /\ now < MaxTime
    /\ now' = now + 1
    /\ UNCHANGED <<users, categories, posts, comments, nextPostId,
                   nextCommentId, hist, response, race>>

\* The submissions ViewSpec draws from: a visible post, one hidden for each
\* reason a post is hidden, and a refused one.
ViewPostSample ==
    { [title |-> "t", is_published |-> TRUE,  pub_date |-> 0,       category |-> "c1"],
      [title |-> "t", is_published |-> FALSE, pub_date |-> 0,       category |-> "c1"],
      [title |-> "t", is_published |-> TRUE,  pub_date |-> MaxTime, category |-> "c1"],
      [title |-> "t", is_published |-> TRUE,  pub_date |-> 0,       category |-> "c2"],
      [title |-> "",  is_published |-> TRUE,  pub_date |-> 0,       category |-> "c1"] }

ViewNext ==
    \/ \E user \in Requesters, data \in ViewPostSample : PostCreate(user, data)
    \/ \E user \in Requesters, pk \in PostIds, data \in ViewPostSample :
           PostUpdate(user, pk, data)
    \/ \E user \in Requesters, pk \in PostIds : PostDelete(user, pk)
    \/ \E user \in Requesters, data \in ProfileFormData : ProfileEdit(user, data)
    \/ \E viewer \in Requesters, pk \in PostIds : PostDetail(viewer, pk)
    \/ \E number \in Pages : PostList(number)
    \/ \E category_slug \in Slugs \cup {"none"}, number \in Pages :
           CategoryPosts(category_slug, number)
    \/ \E viewer \in Requesters, username \in Names, number \in Pages :
           ProfilePage(viewer, username, number)
    \/ Tick

ViewSpec == Init /\ [][ViewNext]_vars

---------------------------------------------------------------------------
(* RaceSpec: two requests in flight.  Each handler is cut at its queries:  *)
(* every SELECT, INSERT, UPDATE and DELETE is a step of its own, and what  *)
(* a view instance read stays in its memory (lc) until it writes.          *)

Workers == {1, 2}

NoPost ==
    [author |-> "", title |-> "", is_published |-> FALSE, pub_date |-> 0,
     category |-> "", comment_count |-> 0]
NoComment == [author |-> "", to_post |-> 0, text |-> ""]
NoRequest ==
    [op |-> "none", user |-> AnonymousUser, pk |-> 0, cid |-> 0, text |-> "",
     form |-> [title |-> "", is_published |-> FALSE, pub_date |-> 0,
               category |-> "none"]]
NoLocals == [post |-> NoPost, comment |-> NoComment]

\* The comment ids a racing delete names: those handed out before the two
\* requests and the first one handed out during them.
RaceCommentIds == 1..(MaxComments + 1)
RaceCommentSample == {"", "x"}

RaceRequests ==
    {[NoRequest EXCEPT !.op = "comment_create", !.user = u, !.pk = p, !.text = t] :
        u \in Users, p \in PostIds, t \in RaceCommentSample}
    \cup
    {[NoRequest EXCEPT !.op = "comment_delete", !.user = u, !.cid = c] :
        u \in Users, c \in RaceCommentIds}
    \cup
    {[NoRequest EXCEPT !.op = "post_update", !.user = u, !.pk = p, !.form = d] :
        u \in Users, p \in PostIds, d \in PostFormSample}

\* The initial tables of RaceSpec: every post exists, some comments exist,
\* and every counter is right.
RaceInit ==
    /\ users = [u \in Users |-> IF u = "u1" THEN "n1" ELSE "n2"]
    /\ categories = [s \in Slugs |-> s = "c1"]
    /\ \E k \in 0..MaxComments : \E parent \in [1..k -> PostIds] :
           /\ comments = [c \in 1..k |->
                             [author |-> "u2", to_post |-> parent[c], text |-> "x"]]
           /\ commentCreator = [c \in 1..k |-> "u2"]
           /\ nextCommentId = k + 1
           /\ posts = [p \in PostIds |->
                          [author |-> "u1", title |-> "t", is_published |-> TRUE,
                           pub_date |-> 0, category |-> "c1",
                           comment_count |->
                               Cardinality({c \in 1..k : parent[c] = p})]]
    /\ postCreator = [p \in PostIds |-> "u1"]
    /\ nextPostId = MaxPosts + 1
    /\ now = 0
    /\ response = NoResponse
    /\ pc = [w \in Workers |-> "idle"]
    /\ rq = [w \in Workers |-> NoRequest]
    /\ lc = [w \in Workers |-> NoLocals]
    /\ overlap = FALSE

Goto(w, label) == pc' = [pc EXCEPT ![w] = label]

\* The post whose counter worker w's request writes
CounterPost(w) ==
    IF rq[w].op = "comment_create" THEN rq[w].pk ELSE lc[w].comment.to_post

\* Worker w has read a counter of post p and not yet written it back.
HoldsUnwrittenRead(w, p) ==
    \/ pc[w] \in {"cc_insert", "cc_count"} /\ rq[w].pk = p
    \/ pc[w] = "cd_write" /\ lc[w].comment.to_post = p

\* History: worker w writes the counter of p while the other worker holds a
\* read of it, so both read it before either wrote it.
NoteOverlap(w, p) ==
    overlap' = (overlap \/ \E o \in Workers \ {w} : HoldsUnwrittenRead(o, p))

LoadedCount_Refreshed(w) == posts[CounterPost(w)].comment_count

\* The comment_count of the Post instance the view of worker w holds
LoadedCount(w) == lc[w].post.comment_count

\* A request arrives
Start(w, request) ==
    /\ pc[w] = "idle"
    /\ rq' = [rq EXCEPT ![w] = request]
    /\ Goto(w, CASE request.op = "comment_create" -> "cc_dispatch"
                 [] request.op = "comment_delete" -> "cd_dispatch"
                 [] OTHER -> "pu_dispatch")
    /\ UNCHANGED <<users, categories, posts, comments, nextPostId,
                   nextCommentId, now, response, hist, lc, overlap>>

\* CommentCreateView.dispatch: self.to_post = get_object_or_404(Post, ...);
\* an invalid form ends the request in form_invalid
CC_Dispatch(w) ==
    /\ pc[w] = "cc_dispatch"
    /\ IF rq[w].pk \notin DOMAIN posts \/ ~CommentFormIsValid(rq[w])
       THEN Goto(w, "done") /\ UNCHANGED lc
       ELSE /\ lc' = [lc EXCEPT ![w].post = posts[rq[w].pk]]
            /\ Goto(w, "cc_insert")
    /\ UNCHANGED <<users, categories, posts, comments, nextPostId,
                   nextCommentId, now, response, hist, rq, overlap>>

\* CommentCreateView.form_valid: super().form_valid(form) inserts the comment
CC_Insert(w) ==
    /\ pc[w] = "cc_insert"
    /\ comments' = comments @@
           (nextCommentId :> NewComment(rq[w].user, rq[w].pk, rq[w]))
    /\ commentCreator' = commentCreator @@ (nextCommentId :> rq[w].user)
    /\ nextCommentId' = nextCommentId + 1
    /\ Goto(w, "cc_count")
    /\ UNCHANGED <<users, categories, posts, nextPostId, now, response,
                   postCreator, rq, lc, overlap>>

\* CommentCreateView.form_valid: comment_count += 1 and save(update_fields)
CC_Count(w) ==
    /\ pc[w] = "cc_count"
    /\ posts' = SaveCount(posts, rq[w].pk, CountAfterCreate(LoadedCount(w)))
    /\ NoteOverlap(w, rq[w].pk)
    /\ Goto(w, "done")
    /\ UNCHANGED <<users, categories, comments, nextPostId, nextCommentId,
                   now, response, hist, rq, lc>>

\* CommentChangeMixin.dispatch: get_object_or_404(Comment, ...), author check
CD_Dispatch(w) ==
    /\ pc[w] = "cd_dispatch"
    /\ IF rq[w].cid \notin DOMAIN comments
       THEN Goto(w, "done")
       ELSE IF ~IsAuthor(comments[rq[w].cid], rq[w].user)
       THEN Goto(w, "done")
       ELSE Goto(w, "cd_get")
    /\ UNCHANGED <<users, categories, posts, comments, nextPostId,
                   nextCommentId, now, response, hist, rq, lc, overlap>>

\* CommentDeleteView.delete: self.object = self.get_object()
CD_Get(w) ==
    /\ pc[w] = "cd_get"
    /\ IF rq[w].cid \notin DOMAIN comments
       THEN Goto(w, "done") /\ UNCHANGED lc
       ELSE /\ lc' = [lc EXCEPT ![w].comment = comments[rq[w].cid]]
            /\ Goto(w, "cd_read")
    /\ UNCHANGED <<users, categories, posts, comments, nextPostId,
                   nextCommentId, now, response, hist, rq, overlap>>

\* CommentDeleteView.delete: to_post = self.object.to_post loads the Post
CD_Read(w) ==
    /\ pc[w] = "cd_read"
    /\ lc' = [lc EXCEPT ![w].post = posts[lc[w].comment.to_post]]
    /\ Goto(w, "cd_write")
    /\ UNCHANGED <<users, categories, posts, comments, nextPostId,
                   nextCommentId, now, response, hist, rq, overlap>>

\* CommentDeleteView.delete: comment_count -= 1 and save(update_fields)
CD_Write(w) ==
    /\ pc[w] = "cd_write"
    /\ posts' = SaveCount(posts, lc[w].comment.to_post,
                          CountAfterDelete(LoadedCount(w)))
    /\ NoteOverlap(w, lc[w].comment.to_post)
    /\ Goto(w, "cd_get2")
    /\ UNCHANGED <<users, categories, comments, nextPostId, nextCommentId,
                   now, response, hist, rq, lc>>

\* super().delete(): self.object = self.get_object() once more
CD_Get2(w) ==
    /\ pc[w] = "cd_get2"
    /\ IF rq[w].cid \notin DOMAIN comments
       THEN Goto(w, "done")
       ELSE Goto(w, "cd_delete")
    /\ UNCHANGED <<users, categories, posts, comments, nextPostId,
                   nextCommentId, now, response, hist, rq, lc, overlap>>

\* super().delete(): self.object.delete()
CD_Delete(w) ==
    /\ pc[w] = "cd_delete"
    /\ comments' = Without(comments, rq[w].cid)
    /\ commentCreator' = Without(commentCreator, rq[w].cid)
    /\ Goto(w, "done")
    /\ UNCHANGED <<users, categories, posts, nextPostId, nextCommentId, now,
                   response, postCreator, rq, lc, overlap>>

\* AuthorCheckMixin.dispatch of PostUpdateView
PU_Dispatch(w) ==
    /\ pc[w] = "pu_dispatch"
    /\ IF rq[w].pk \notin DOMAIN posts
       THEN Goto(w, "done")
       ELSE IF ~IsAuthor(posts[rq[w].pk], rq[w].user)
       THEN Goto(w, "done")
       ELSE Goto(w, "pu_get")
    /\ UNCHANGED <<users, categories, posts, comments, nextPostId,
                   nextCommentId, now, response, hist, rq, lc, overlap>>

\* UpdateView.post: self.object = self.get_object()
PU_Get(w) ==
    /\ pc[w] = "pu_get"
    /\ IF rq[w].pk \notin DOMAIN posts
       THEN Goto(w, "done") /\ UNCHANGED lc
       ELSE /\ lc' = [lc EXCEPT ![w].post = posts[rq[w].pk]]
            /\ Goto(w, "pu_save")
    /\ UNCHANGED <<users, categories, posts, comments, nextPostId,
                   nextCommentId, now, response, hist, rq, overlap>>

\* AddAuthorMixin.form_valid and form.save(): the loaded instance, with the
\* form's fields, is written back whole
PU_Save(w) ==
    /\ pc[w] = "pu_save"
    /\ IF PostFormIsValid(rq[w].form)
       THEN posts' = [posts EXCEPT ![rq[w].pk] =
                         SavedPost(lc[w].post, rq[w].user, rq[w].form)]
       ELSE UNCHANGED posts
    /\ Goto(w, "done")
    /\ UNCHANGED <<users, categories, comments, nextPostId, nextCommentId,
                   now, response, hist, rq, lc, overlap>>

RaceNext ==
    \E w \in Workers :
        \/ \E request \in RaceRequests : Start(w, request)
        \/ CC_Dispatch(w)
        \/ CC_Insert(w)
        \/ CC_Count(w)
        \/ CD_Dispatch(w)
        \/ CD_Get(w)
        \/ CD_Read(w)
        \/ CD_Write(w)
        \/ CD_Get2(w)
        \/ CD_Delete(w)
        \/ PU_Dispatch(w)
        \/ PU_Get(w)
        \/ PU_Save(w)

RaceSpec == RaceInit /\ [][RaceNext]_vars

---------------------------------------------------------------------------
(* Claims checked under Spec *)

CommentsOf(p) == {c \in DOMAIN comments : comments[c].to_post = p}

ProtectedOps ==
    {"post_create", "post_update", "post_delete", "comment_create",
     "comment_update", "comment_delete", "profile_edit"}

\* The row a request names exists (a create or a profile edit names none).
NamesARow(r) ==
    CASE r.op \in {"post_update", "post_delete", "comment_create"} ->
             r.pk \in DOMAIN posts
      [] r.op \in {"comment_update", "comment_delete"} ->
             r.cid \in DOMAIN comments
      [] OTHER -> TRUE

\* C1: with requests handled one at a time, every existing Post's
\* comment_count equals the number of existing Comments whose to_post is it.
C1_CountMatchesComments ==
    \A p \in DOMAIN posts :
        posts[p].comment_count = Cardinality(CommentsOf(p))

\* A comment was created and its author's delete request has removed it.
C1_Witness ==
    /\ response.op = "comment_delete"
    /\ response.status = "redirect"
    /\ response.cid \notin DOMAIN comments
    /\ response.to_pk \in DOMAIN posts
    /\ posts[response.to_pk].comment_count = 0

\* C4: an update or delete request by a user who is not the object's author
\* is redirected to the detail page of the post the object belongs to, and
\* leaves the posts and the comments as they were.
C4_NonAuthorRedirectedToOwnPost ==
    [][ /\ (/\ response'.op \in {"post_update", "post_delete"}
            /\ response'.pk \in DOMAIN posts
            /\ posts[response'.pk].author # response'.user)
           => /\ response'.status = "redirect"
              /\ response'.view = "post_detail"
              /\ response'.to_pk = response'.pk
              /\ UNCHANGED <<posts, comments>>
        /\ (/\ response'.op \in {"comment_update", "comment_delete"}
            /\ response'.cid \in DOMAIN comments
            /\ comments[response'.cid].author # response'.user)
           => /\ response'.status = "redirect"
              /\ response'.view = "post_detail"
              /\ response'.to_pk = comments[response'.cid].to_post
              /\ UNCHANGED <<posts, comments>>
      ]_vars

\* C5: an anonymous request to a protected action is redirected to the login
\* page and changes no user, post or comment.  Stated for requests that name
\* an existing row, so that no not-found answer counts against it.
C5_AnonymousRedirectedToLogin ==
    [][ (/\ response'.user = AnonymousUser
         /\ response'.op \in ProtectedOps
         /\ NamesARow(response'))
        => /\ response'.status = "redirect"
           /\ response'.view = "login"
           /\ UNCHANGED <<users, posts, comments>>
      ]_vars

\* C7: a post create, post update, comment create or comment update whose
\* form fails validation creates and modifies no Post and no Comment.
C7_InvalidFormPersistsNothing ==
    [][ (/\ response'.status = "form_errors"
         /\ response'.op \in {"post_create", "post_update", "comment_create",
                              "comment_update"})
        => UNCHANGED <<posts, comments, nextPostId, nextCommentId>>
      ]_vars

\* An authenticated user's empty comment on an existing post was refused.
C7_Witness ==
    /\ response.op = "comment_create"
    /\ response.status = "form_errors"
    /\ response.pk \in DOMAIN posts
    /\ response.user \in Users

\* C9: every existing Post and Comment has as author the user who made its
\* create request.
C9_AuthorNeverChanges ==
    /\ \A p \in DOMAIN posts : posts[p].author = postCreator[p]
    /\ \A c \in DOMAIN comments : comments[c].author = commentCreator[c]

\* An author's update of their own post went through and changed a field.
C9_Witness ==
    /\ response.op = "post_update"
    /\ response.status = "redirect"
    /\ response.pk \in DOMAIN posts
    /\ posts[response.pk].author = response.user
    /\ ~posts[response.pk].is_published

---------------------------------------------------------------------------
(* Claims checked under ViewSpec *)

\* The visibility rule: a post is visible at time t when it is published,
\* its publish timestamp is at or before t, and its category is published.
VisibleAt(p, t) ==
    /\ posts[p].is_published
    /\ posts[p].pub_date <= t
    /\ categories[posts[p].category]

Items(seq) == {seq[i] : i \in DOMAIN seq}

ListingOps == {"post_list", "category_posts", "profile_page"}

\* C2: a post-detail request is answered not-found when the post does not
\* exist, and when the viewer is not its author and the post is not visible;
\* the author of the post is answered with the page.
C2_DetailNotFoundWhenHidden ==
    response.op = "post_detail" =>
        /\ response.pk \notin DOMAIN posts => response.status = "not_found"
        /\ (/\ response.pk \in DOMAIN posts
            /\ posts[response.pk].author # response.user
            /\ ~VisibleAt(response.pk, response.at))
           => response.status = "not_found"
        /\ (/\ response.pk \in DOMAIN posts
            /\ posts[response.pk].author = response.user)
           => response.status = "ok"

\* C3: a listing page holds no post that is not visible, except that a
\* profile listing may hold posts of the viewer; and a profile listing asked
\* for by its owner lists every post of the owner.
C3_ListingsHideInvisible ==
    response.op \in ListingOps =>
        /\ \A p \in Items(response.page) :
               /\ p \in DOMAIN posts
               /\ \/ VisibleAt(p, response.at)
                  \/ /\ response.op = "profile_page"
                     /\ posts[p].author = response.user
        /\ Items(response.page) \subseteq Items(response.object_list)
        /\ (/\ response.op = "profile_page"
            /\ response.status = "ok"
            /\ response.user \in Users
            /\ users[response.user] = response.name)
           => \A p \in DOMAIN posts :
                  posts[p].author = response.user
                      => p \in Items(response.object_list)

\* A profile listing answered to another viewer leaves out a hidden post of
\* the profile's user.
C3_Witness ==
    /\ response.op = "profile_page"
    /\ response.status = "ok"
    /\ Username(response.user) # response.name
    /\ \E p \in DOMAIN posts :
           /\ Username(posts[p].author) = response.name
           /\ ~VisibleAt(p, response.at)
           /\ p \notin Items(response.page)

\* C8: get_published_posts() is exactly the set of visible posts.
C8_PublishedPostsAreTheVisible ==
    get_published_posts = {p \in DOMAIN posts : VisibleAt(p, now)}

---------------------------------------------------------------------------
(* Claims checked under RaceSpec *)

AllDone == \A w \in Workers : pc[w] = "done"

CountIsRight(p) == posts[p].comment_count = Cardinality(CommentsOf(p))

SameCommentDeletes ==
    /\ rq[1].op = "comment_delete"
    /\ rq[2].op = "comment_delete"
    /\ rq[1].cid = rq[2].cid

C10_PostUpdateKeepsCount ==
    [][ \A w \in Workers :
            (pc[w] = "pu_save" /\ pc'[w] = "done")
            => \A p \in DOMAIN posts :
                   posts'[p].comment_count = posts[p].comment_count
      ]_vars

=============================================================================
